---- MODULE Spec2Model ----
(***************************************************************************)
(* Model of app.py, the "Kya Khaoge" food recommender: a Streamlit script  *)
(* whose chat handler extracts {location, budget, craving} from the user's *)
(* message with one model call, loads the (memoised) food table and asks   *)
(* the model a second time for recommendations.                            *)
(*                                                                         *)
(* Spec      : the whole script (startup, one chat turn after another).    *)
(* SpecUnit  : extract_user_info and get_recommendations applied as pure   *)
(*             functions to inputs drawn from bounded sets.                *)
(***************************************************************************)
EXTENDS Integers, Sequences, FiniteSets, TLC

\* ------------------------------------------------------------------------
\* Bounds
\* ------------------------------------------------------------------------
MaxTurns == 2       \* chat inputs submitted in one session
MaxReplyLen == 3    \* tokens in a model reply to the extraction prompt

\* ------------------------------------------------------------------------
\* Python / JSON values
\* ------------------------------------------------------------------------
\* A scalar: t is the JSON type, n the number (or truth value, or list
\* length), s the string.
Sc(t, n, s) == [t |-> t, n |-> n, s |-> s]

Absent == Sc("absent", 0, "")      \* the key is not in the dict
JNull == Sc("null", 0, "")         \* JSON null, Python None
JFalse == Sc("bool", 0, "")
JTrue == Sc("bool", 1, "")
JNum(n) == Sc("num", n, "")
JStr(s) == Sc("str", 0, s)
JList(k) == Sc("list", k, "")      \* a list of k elements

NoFields == [location |-> Absent, budget |-> Absent, craving |-> Absent, extra |-> FALSE]

\* A value returned by json.loads: a scalar, or a dict with any of the keys
\* location, budget, craving (extra: the dict has some other key).
Val(sc) == [t |-> sc.t, n |-> sc.n, s |-> sc.s, o |-> NoFields]

Obj(l, b, c, e) == [t |-> "obj", n |-> 0, s |-> "", o |-> [location |-> l, budget |-> b, craving |-> c, extra |-> e]]

PyNone == Val(JNull)

Unbound == Val(Sc("unbound", 0, ""))   \* a local name not assigned yet

\* Python truth value of a scalar
TruthySc(sc) ==
    CASE sc.t = "bool" -> sc.n = 1
      [] sc.t = "num" -> sc.n # 0
      [] sc.t = "str" -> sc.s # ""
      [] sc.t = "list" -> sc.n > 0
      [] OTHER -> FALSE

\* Python truth value of a json.loads result (a dict is true iff non-empty)
Truthy(v) ==
    IF v.t = "obj"
    THEN v.o.location # Absent \/ v.o.budget # Absent \/ v.o.craving # Absent \/ v.o.extra
    ELSE TruthySc([t |-> v.t, n |-> v.n, s |-> v.s])

\* dict.get(key): None when the key is absent
DictGet(v, k) == IF v.o[k] = Absent THEN JNull ELSE v.o[k]

\* str.lower() on the craving strings of the model
Lower(s) ==
    CASE s = "Anything" -> "anything"
      [] s = "Cheesy" -> "cheesy"
      [] OTHER -> s

\* ------------------------------------------------------------------------
\* Fixed texts of the program
\* ------------------------------------------------------------------------
Greeting == "Hello! I'm your Mumbai Food Compass. Tell me your location, budget, and what you're craving, and I'll find the perfect meal for you!"

ClarifyMsg == "I'm sorry, I couldn't understand your location. Could you please tell me where you are in Mumbai?"

UnavailableMsg == "Sorry, the food database is currently unavailable."

ComposerErrorMsg == "Sorry, boss! Couldn't get a recommendation right now. Error: e"

DefaultBudget == 100

Msg(role, content) == [role |-> role, content |-> content]

\* ------------------------------------------------------------------------
\* Inputs
\* ------------------------------------------------------------------------
\* What the user types.  loc/budget/craving: whether the text states one.
Utterances == {"I'm near CST, have 200 and want something cheesy!", "I'm near CST", "I'm hungry"}

StatesLocation(u) == u # "I'm hungry"

StatesBudget(u) == u = "I'm near CST, have 200 and want something cheesy!"

StatesCraving(u) == u = "I'm near CST, have 200 and want something cheesy!"

Locations == {Absent, JNull, JStr(""), JNum(0), JStr("CST"), JList(1)}

Budgets == {Absent, JNull, JNum(DefaultBudget), JNum(200)}

Cravings == {Absent, JNull, JStr("anything"), JStr("Anything"), JStr("cheesy")}

Objects == {Obj(l, b, c, e) : l \in Locations, b \in Budgets, c \in Cravings, e \in BOOLEAN}

TopScalars == {JNull, JFalse, JTrue, JNum(0), JNum(7), JStr(""), JStr("CST"), JList(0), JList(1)}

\* every JSON text the model may put in its reply
Payloads == Objects \cup {Val(sc) : sc \in TopScalars}

\* Tokens of a reply: white space, the two fence markers (FENCE_JSON is
\* three backquotes followed by json, FENCE is three backquotes), the JSON
\* text V of the payload, and text J that is no JSON (Sure! Here you go).
Tokens == {"WS", "FENCE_JSON", "FENCE", "V", "J"}

SeqsUpTo(n) == UNION {[1..k -> Tokens] : k \in 0..n}

\* the food table: a sequence of rows; DataFrame.empty iff no rows
Tables == {<<>>, <<"vada pav">>, <<"vada pav", "cheese dosa">>}

Times == {"9:05 AM on a Monday", "11:30 PM on a Friday"}

ModelTexts == {"**1. Vada Pav at Ashok**"}

\* what a call of model.generate_content(...).text does for the extraction
\* prompt: it raises, or it returns a text made of tokens around a payload
ModelRaises == [kind |-> "raise", tokens |-> <<>>, payload |-> PyNone]

ModelSays(toks, p) == [kind |-> "text", tokens |-> toks, payload |-> p]

\* every reply of at most MaxReplyLen tokens (SpecUnit)
ExtractOutcomes == {ModelRaises} \cup {ModelSays(toks, p) : toks \in SeqsUpTo(MaxReplyLen), p \in Payloads}

\* the reply shapes a chat turn is run with (Spec)
ReplyShapes == {<<"V">>, <<"FENCE_JSON", "WS", "V", "WS", "FENCE">>, <<"J", "WS", "V">>, <<>>}

TurnOutcomes == {ModelRaises} \cup {ModelSays(toks, p) : toks \in ReplyShapes, p \in Payloads}

\* what the recommendation call of the model does
ComposeOutcomes == {[kind |-> "raise", text |-> ""]} \cup {[kind |-> "text", text |-> t] : t \in ModelTexts}

\* what pd.read_csv(sheet_url) does at one fetch: it raises, or returns rows
FetchOutcomes == {[ok |-> FALSE, table |-> <<>>]} \cup {[ok |-> TRUE, table |-> t] : t \in Tables}

\* ------------------------------------------------------------------------
\* extract_user_info
\* ------------------------------------------------------------------------
\* str.strip(): drop leading and trailing white space
RECURSIVE StripLeft(_)
StripLeft(toks) ==
    IF toks # <<>> /\ Head(toks) = "WS" THEN StripLeft(Tail(toks)) ELSE toks

RECURSIVE StripRight(_)
StripRight(toks) ==
    IF toks # <<>> /\ toks[Len(toks)] = "WS" THEN StripRight(SubSeq(toks, 1, Len(toks) - 1)) ELSE toks

Strip(toks) == StripRight(StripLeft(toks))

\* str.replace(marker, ""): drop every occurrence of the marker
Replace(toks, marker) == SelectSeq(toks, LAMBDA t : t # marker)

\* response.text.strip().replace(FENCE_JSON, "").replace(FENCE, "").strip(),
\* a mutant that forgets the fences
CleanNoFence(toks) == Strip(toks)

Clean(toks) == Strip(Replace(Replace(Strip(toks), "FENCE_JSON"), "FENCE"))

RECURSIVE Pow10(_)
Pow10(k) == IF k = 0 THEN 1 ELSE 10 * Pow10(k - 1)

RECURSIVE Digits(_)
Digits(n) == IF n < 10 THEN 1 ELSE 1 + Digits(n \div 10)

\* the number whose decimal text is the text of n written k times
RECURSIVE Fuse(_, _)
Fuse(n, k) == IF k = 1 THEN n ELSE Fuse(n, k - 1) * Pow10(Digits(n)) + n

\* json.loads on the cleaned text: exactly one JSON text parses; the empty
\* text, text with J in it and two JSON texts side by side do not, except
\* that the digits of a non-zero number written k times are one number.
JsonLoads(toks, payload) ==
    IF toks = <<"V">>
    THEN [ok |-> TRUE, value |-> payload]
    ELSE IF Len(toks) > 1 /\ (\A i \in 1..Len(toks) : toks[i] = "V") /\ payload.t = "num" /\ payload.n # 0
    THEN [ok |-> TRUE, value |-> Val(JNum(Fuse(payload.n, Len(toks))))]
    ELSE [ok |-> FALSE, value |-> PyNone]

Returns(v, calls) == [kind |-> "return", value |-> v, calls |-> calls]

Raises(calls) == [kind |-> "raise", value |-> PyNone, calls |-> calls]

\* mutant: only the model's error is caught, a JSONDecodeError escapes
extract_user_info_uncaught(outcome) ==
    IF outcome.kind = "raise"
    THEN Returns(PyNone, 1)
    ELSE LET parsed == JsonLoads(Clean(outcome.tokens), outcome.payload)
         IN IF parsed.ok THEN Returns(parsed.value, 1) ELSE Raises(1)

\* mutant: the model is asked again after a failure
extract_user_info_retry(outcome) ==
    IF outcome.kind = "raise"
    THEN Returns(PyNone, 2)
    ELSE LET parsed == JsonLoads(Clean(outcome.tokens), outcome.payload)
         IN IF parsed.ok THEN Returns(parsed.value, 1) ELSE Returns(PyNone, 2)

\* one model call; the parsed value, or None on any exception
extract_user_info(outcome) ==
    IF outcome.kind = "raise"
    THEN Returns(PyNone, 1)
    ELSE LET parsed == JsonLoads(Clean(outcome.tokens), outcome.payload)
         IN IF parsed.ok THEN Returns(parsed.value, 1) ELSE Returns(PyNone, 1)

\* ------------------------------------------------------------------------
\* load_data (memoised by st.cache_data)
\* ------------------------------------------------------------------------
NoCache == [set |-> FALSE, table |-> <<>>]

Loaded(t, c) == [kind |-> "return", table |-> t, cache |-> c]

\* the function body: any exception gives the empty DataFrame
load_data_body(hasUrl, fetch) ==
    IF hasUrl /\ fetch.ok THEN fetch.table ELSE <<>>

\* mutant: no memoisation, every call fetches again
load_data_uncached(c, hasUrl, fetch) ==
    Loaded(load_data_body(hasUrl, fetch), [set |-> TRUE, table |-> load_data_body(hasUrl, fetch)])

load_data(c, hasUrl, fetch) ==
    IF c.set
    THEN Loaded(c.table, c)
    ELSE Loaded(load_data_body(hasUrl, fetch), [set |-> TRUE, table |-> load_data_body(hasUrl, fetch)])

\* ------------------------------------------------------------------------
\* get_recommendations
\* ------------------------------------------------------------------------
NoPrompt == [location |-> Absent, budget |-> Absent, instruction |-> "", time |-> "", rows |-> <<>>]

Rec(kind, text, calls, p) == [kind |-> kind, text |-> text, calls |-> calls, prompt |-> p]

\* the prompt and the model call, once the table is known to have rows
Compose(location, budget, craving, food_data, current_time_str, outcome) ==
    IF craving.t # "str"
    THEN Rec("raise", "", 0, NoPrompt)   \* craving.lower(): AttributeError
    ELSE LET p == [location |-> location, budget |-> budget,
                   instruction |-> IF Lower(craving.s) = "anything" THEN "popular" ELSE "mood",
                   time |-> current_time_str, rows |-> food_data]
         IN IF outcome.kind = "raise"
            THEN Rec("return", ComposerErrorMsg, 1, p)
            ELSE Rec("return", outcome.text, 1, p)

\* mutant: the table is not checked for emptiness
get_recommendations_nocheck(location, budget, craving, food_data, current_time_str, outcome) ==
    Compose(location, budget, craving, food_data, current_time_str, outcome)

get_recommendations(location, budget, craving, food_data, current_time_str, outcome) ==
    IF Len(food_data) = 0
    THEN Rec("return", UnavailableMsg, 0, NoPrompt)
    ELSE Compose(location, budget, craving, food_data, current_time_str, outcome)

\* ------------------------------------------------------------------------
\* line 167: user_info and user_info.get("location")
\* ------------------------------------------------------------------------
\* mutant: the location is only compared with None
LocationCondition_notnull(user_info) ==
    IF ~Truthy(user_info) THEN "false"
    ELSE IF user_info.t # "obj" THEN "raise"
    ELSE IF DictGet(user_info, "location") # JNull THEN "true" ELSE "false"

\* mutant: the location is not looked at
LocationCondition_nolookup(user_info) ==
    IF ~Truthy(user_info) THEN "false" ELSE "true"

\* "true", "false", or "raise" (AttributeError: only a dict has .get)
LocationCondition(user_info) ==
    IF ~Truthy(user_info) THEN "false"
    ELSE IF user_info.t # "obj" THEN "raise"
    ELSE IF TruthySc(DictGet(user_info, "location")) THEN "true" ELSE "false"

\* ------------------------------------------------------------------------
\* State
\* ------------------------------------------------------------------------
VARIABLES
    hasApiKey,      \* st.secrets has GEMINI_API_KEY
    hasSheetUrl,    \* st.secrets has SHEET_URL
    pc,             \* where the script is
    messages,       \* st.session_state.messages
    prompt,         \* the chat input of the turn
    user_info,      \* local of the turn handler
    food_data,      \* local of the turn handler
    response,       \* response_message
    cache,          \* the st.cache_data entry of load_data
    loads,          \* the tables load_data has returned in this process
    turns,          \* chat inputs submitted
    completed,      \* turns that reached the end of the script
    extractCalls,   \* model calls of extract_user_info in this turn
    composeCalls,   \* model calls of get_recommendations in this turn
    recCalled,      \* get_recommendations was called in this turn
    recArgs,        \* with these arguments
    crashAt,        \* the expression whose exception ended the script run
    x_in, x_out,    \* SpecUnit: a call of extract_user_info
    r_in, r_out     \* SpecUnit: a call of get_recommendations

vars == <<hasApiKey, hasSheetUrl, pc, messages, prompt, user_info, food_data, response, cache, loads, turns, completed, extractCalls, composeCalls, recCalled, recArgs, crashAt, x_in, x_out, r_in, r_out>>

config == <<hasApiKey, hasSheetUrl>>

unit == <<x_in, x_out, r_in, r_out>>

NoArgs == [location |-> Absent, budget |-> Absent, craving |-> Absent]

NoCall == [kind |-> "none", value |-> PyNone, calls |-> 0]

NoRecIn == [location |-> JNull, budget |-> JNull, craving |-> JNull, food_data |-> <<>>, time |-> "", outcome |-> [kind |-> "raise", text |-> ""]]

NoRec == Rec("none", "", 0, NoPrompt)

InitTurn ==
    /\ pc = "startup"
    /\ messages = <<>>
    /\ prompt = ""
    /\ user_info = Unbound
    /\ food_data = <<>>
    /\ response = ""
    /\ cache = NoCache
    /\ loads = <<>>
    /\ turns = 0
    /\ completed = 0
    /\ extractCalls = 0
    /\ composeCalls = 0
    /\ recCalled = FALSE
    /\ recArgs = NoArgs
    /\ crashAt = ""

InitUnitVars ==
    /\ x_in = ModelRaises
    /\ x_out = NoCall
    /\ r_in = NoRecIn
    /\ r_out = NoRec

Init ==
    /\ hasApiKey \in BOOLEAN
    /\ hasSheetUrl \in BOOLEAN
    /\ InitTurn
    /\ InitUnitVars

\* ------------------------------------------------------------------------
\* The script
\* ------------------------------------------------------------------------
\* mutant: the script goes on without the API key
Startup_nostop ==
    /\ pc = "startup"
    /\ pc' = "awaiting"
    /\ messages' = <<Msg("assistant", Greeting)>>
    /\ UNCHANGED <<config, prompt, user_info, food_data, response, cache, loads, turns, completed, extractCalls, composeCalls, recCalled, recArgs, crashAt, unit>>

\* first run of the script: the model is configured (st.stop() when the key
\* is missing), then the history is initialised with the greeting
Startup ==
    /\ pc = "startup"
    /\ IF hasApiKey
       THEN /\ pc' = "awaiting"
            /\ messages' = <<Msg("assistant", Greeting)>>
       ELSE /\ pc' = "stopped"
            /\ messages' = messages
    /\ UNCHANGED <<config, prompt, user_info, food_data, response, cache, loads, turns, completed, extractCalls, composeCalls, recCalled, recArgs, crashAt, unit>>

\* st.chat_input returns a message: the script runs again (also after a run
\* that ended with an exception; the session state is kept) and appends it
ChatInput ==
    /\ pc \in {"awaiting", "crashed"}
    /\ turns < MaxTurns
    /\ \E u \in Utterances :
        /\ prompt' = u
        /\ messages' = Append(messages, Msg("user", u))
    /\ pc' = "extracting"
    /\ turns' = turns + 1
    /\ user_info' = Unbound
    /\ food_data' = <<>>
    /\ response' = ""
    /\ extractCalls' = 0
    /\ composeCalls' = 0
    /\ recCalled' = FALSE
    /\ recArgs' = NoArgs
    /\ crashAt' = ""
    /\ UNCHANGED <<config, cache, loads, completed, unit>>

\* user_info = extract_user_info(prompt)
ExtractUserInfo ==
    /\ pc = "extracting"
    /\ \E outcome \in TurnOutcomes :
        LET r == extract_user_info(outcome)
        IN /\ extractCalls' = extractCalls + r.calls
           /\ IF r.kind = "return"
              THEN /\ user_info' = r.value
                   /\ pc' = "branch"
                   /\ crashAt' = crashAt
              ELSE /\ user_info' = user_info
                   /\ pc' = "crashed"
                   /\ crashAt' = "extract"
    /\ UNCHANGED <<config, messages, prompt, food_data, response, cache, loads, turns, completed, composeCalls, recCalled, recArgs, unit>>

\* if user_info and user_info.get("location"): ... else: the clarification
CheckLocation ==
    /\ pc = "branch"
    /\ LET c == LocationCondition(user_info)
       IN /\ pc' = CASE c = "true" -> "loading" [] c = "false" -> "respond" [] OTHER -> "crashed"
          /\ response' = IF c = "false" THEN ClarifyMsg ELSE response
          /\ crashAt' = IF c = "raise" THEN "get" ELSE crashAt
    /\ UNCHANGED <<config, messages, prompt, user_info, food_data, cache, loads, turns, completed, extractCalls, composeCalls, recCalled, recArgs, unit>>

\* food_data = load_data()
LoadData ==
    /\ pc = "loading"
    /\ \E fetch \in FetchOutcomes :
        LET r == load_data(cache, hasSheetUrl, fetch)
        IN IF r.kind = "return"
           THEN /\ food_data' = r.table
                /\ cache' = r.cache
                /\ loads' = Append(loads, r.table)
                /\ pc' = "composing"
                /\ crashAt' = crashAt
           ELSE /\ UNCHANGED <<food_data, cache, loads>>
                /\ pc' = "crashed"
                /\ crashAt' = "load"
    /\ UNCHANGED <<config, messages, prompt, user_info, response, turns, completed, extractCalls, composeCalls, recCalled, recArgs, unit>>

\* recommendation = get_recommendations(user_info["location"],
\*     user_info["budget"], user_info["craving"], food_data, current_time_str)
Recommend ==
    /\ pc = "composing"
    /\ IF user_info.o.budget = Absent \/ user_info.o.craving = Absent
       THEN \* KeyError while the arguments are evaluated
            /\ pc' = "crashed"
            /\ crashAt' = IF user_info.o.budget = Absent THEN "budget" ELSE "craving"
            /\ UNCHANGED <<response, composeCalls, recCalled, recArgs>>
       ELSE \E t \in Times, outcome \in ComposeOutcomes :
            LET r == get_recommendations(user_info.o.location, user_info.o.budget, user_info.o.craving, food_data, t, outcome)
            IN /\ recCalled' = TRUE
               /\ recArgs' = [location |-> user_info.o.location, budget |-> user_info.o.budget, craving |-> user_info.o.craving]
               /\ composeCalls' = composeCalls + r.calls
               /\ IF r.kind = "return"
                  THEN /\ response' = r.text
                       /\ pc' = "respond"
                       /\ crashAt' = crashAt
                  ELSE /\ response' = response
                       /\ pc' = "crashed"
                       /\ crashAt' = "lower"
    /\ UNCHANGED <<config, messages, prompt, user_info, food_data, cache, loads, turns, completed, extractCalls, unit>>

\* st.session_state.messages.append({"role": "assistant", ...})
AppendAssistant ==
    /\ pc = "respond"
    /\ messages' = Append(messages, Msg("assistant", response))
    /\ pc' = "awaiting"
    /\ completed' = completed + 1
    /\ UNCHANGED <<config, prompt, user_info, food_data, response, cache, loads, turns, extractCalls, composeCalls, recCalled, recArgs, crashAt, unit>>

Next ==
    \/ Startup
    \/ ChatInput
    \/ ExtractUserInfo
    \/ CheckLocation
    \/ LoadData
    \/ Recommend
    \/ AppendAssistant

Spec == Init /\ [][Next]_vars

\* ------------------------------------------------------------------------
\* The two functions on their own
\* ------------------------------------------------------------------------
ArgScalars == (Locations \cup Budgets \cup Cravings \cup TopScalars) \ {Absent}

turn == <<messages, prompt, user_info, food_data, response, cache, loads, turns, completed, extractCalls, composeCalls, recCalled, recArgs, crashAt>>

RecInputs == [location : ArgScalars, budget : ArgScalars, craving : ArgScalars, food_data : Tables, time : Times, outcome : ComposeOutcomes]

\* one call of one of the two functions, on any input of the bounded sets
InitUnit ==
    /\ hasApiKey = TRUE
    /\ hasSheetUrl = TRUE
    /\ messages = <<>> /\ prompt = "" /\ user_info = Unbound /\ food_data = <<>>
    /\ response = "" /\ cache = NoCache /\ loads = <<>> /\ turns = 0 /\ completed = 0
    /\ extractCalls = 0 /\ composeCalls = 0 /\ recCalled = FALSE /\ recArgs = NoArgs
    /\ crashAt = ""
    /\ x_out = NoCall
    /\ r_out = NoRec
    /\ \/ pc = "call_extract" /\ x_in \in ExtractOutcomes /\ r_in = NoRecIn
       \/ pc = "call_recommend" /\ x_in = ModelRaises /\ r_in \in RecInputs

UnitExtract ==
    /\ pc = "call_extract"
    /\ x_out' = extract_user_info(x_in)
    /\ pc' = "returned"
    /\ UNCHANGED <<config, turn, x_in, r_in, r_out>>

UnitRecommend ==
    /\ pc = "call_recommend"
    /\ r_out' = get_recommendations(r_in.location, r_in.budget, r_in.craving, r_in.food_data, r_in.time, r_in.outcome)
    /\ pc' = "returned"
    /\ UNCHANGED <<config, turn, x_in, x_out, r_in>>

NextUnit ==
    \/ UnitExtract
    \/ UnitRecommend

SpecUnit == InitUnit /\ [][NextUnit]_vars

\* ------------------------------------------------------------------------
\* Properties
\* ------------------------------------------------------------------------
LastMessage == messages[Len(messages)]

TurnOver == turns > 0 /\ pc \in {"awaiting", "crashed"}

\* C1: every turn ends with exactly one assistant message appended after the
\* user's message, and no exception escapes the turn handler, whatever the
\* model replies to the extraction prompt.
C1_EveryTurnAnswered ==
    /\ pc # "crashed"
    /\ TurnOver =>
        /\ Len(messages) >= 3
        /\ LastMessage.role = "assistant"
        /\ messages[Len(messages) - 1] = Msg("user", prompt)

\* the extractor gave no location: None, or a dict whose location is null
\* or missing
NoLocation(v) == v = PyNone \/ (v.t = "obj" /\ v.o.location \in {Absent, JNull})

\* C2: in a turn where the extractor determines no location (it returns
\* None, or a dict whose location is null or missing), get_recommendations
\* is not called, the model is not called a second time, and the assistant
\* message is exactly the fixed clarification message.
C2_NoLocationClarifies ==
    NoLocation(user_info) =>
        /\ ~recCalled
        /\ composeCalls = 0
        /\ pc \in {"branch", "respond", "awaiting"}
        /\ pc = "respond" => response = ClarifyMsg
        /\ pc = "awaiting" => LastMessage = Msg("assistant", ClarifyMsg)

C2_Witness ==
    /\ pc = "awaiting"
    /\ user_info.t = "obj"
    /\ user_info.o.location = JNull
    /\ user_info.o.budget = JNum(200)
    /\ extractCalls = 1
    /\ LastMessage = Msg("assistant", ClarifyMsg)

\* C3: get_recommendations called with an empty table returns exactly the
\* fixed unavailable message and calls the model zero times, for every
\* location, budget, craving (also a craving that is no string) and time.
C3_EmptyTableUnavailable ==
    (pc = "returned" /\ r_out.kind # "none" /\ r_in.food_data = <<>>) =>
        /\ r_out.kind = "return"
        /\ r_out.text = UnavailableMsg
        /\ r_out.calls = 0

C3_Witness ==
    /\ pc = "returned"
    /\ r_in.food_data = <<>>
    /\ r_in.craving = JNull
    /\ r_in.location = JStr("CST")
    /\ r_out.kind = "return"
    /\ r_out.text = UnavailableMsg

C5_DefaultsApplied ==
    /\ (user_info.t = "obj" /\ ~StatesBudget(prompt)) => user_info.o.budget = JNum(DefaultBudget)
    /\ (user_info.t = "obj" /\ ~StatesCraving(prompt)) => user_info.o.craving = JStr("anything")
    /\ (recCalled /\ ~StatesBudget(prompt)) => recArgs.budget = JNum(DefaultBudget)
    /\ (recCalled /\ ~StatesCraving(prompt)) => recArgs.craving = JStr("anything")

HasToken(toks, t) == \E i \in 1..Len(toks) : toks[i] = t

CountToken(toks, t) == Cardinality({i \in 1..Len(toks) : toks[i] = t})

\* C6: extract_user_info never raises and calls the model once; a reply
\* that is one JSON text wrapped in fence markers and white space gives the
\* parsed value; a model error, a reply with non-JSON text in it and a
\* reply with no JSON text give None.
C6_ExtractReturnsNoneOnFailure ==
    (pc = "returned" /\ x_out.kind # "none") =>
        /\ x_out.kind = "return"
        /\ x_out.calls = 1
        /\ x_in.kind = "raise" => x_out.value = PyNone
        /\ (x_in.kind = "text" /\ HasToken(x_in.tokens, "J")) => x_out.value = PyNone
        /\ (x_in.kind = "text" /\ ~HasToken(x_in.tokens, "V")) => x_out.value = PyNone
        /\ (x_in.kind = "text" /\ ~HasToken(x_in.tokens, "J") /\ CountToken(x_in.tokens, "V") = 1) => x_out.value = x_in.payload

C6_Witness ==
    /\ pc = "returned"
    /\ x_in.kind = "text"
    /\ x_in.tokens = <<"FENCE_JSON", "J", "FENCE">>
    /\ x_in.payload.t = "obj"
    /\ x_out = Returns(PyNone, 1)

\* C7: in every turn the extractor calls the model exactly once and the
\* composer at most once (never a retry), the composer's call comes after
\* the extractor has returned, and a turn that repeats an earlier utterance
\* calls the extractor afresh.
C7_ModelCallsPerTurn ==
    /\ extractCalls <= 1
    /\ composeCalls <= 1
    /\ pc = "extracting" => extractCalls = 0 /\ composeCalls = 0
    /\ pc \in {"branch", "loading", "composing", "respond"} => extractCalls = 1
    /\ TurnOver => extractCalls = 1
    /\ composeCalls = 1 => extractCalls = 1 /\ user_info # Unbound /\ recCalled

C7_Witness ==
    /\ turns = 2
    /\ pc = "awaiting"
    /\ Len(messages) = 5
    /\ messages[2] = messages[4]
    /\ messages[2].role = "user"
    /\ extractCalls = 1
    /\ composeCalls = 1

\* C8: load_data never raises, all tables it returns in one process are
\* equal, and once it has returned the empty table every call of
\* get_recommendations gives the unavailable message without a model call,
\* whatever the intent.
C8_EmptyTableSticks ==
    /\ crashAt # "load"
    /\ \A i, j \in 1..Len(loads) : loads[i] = loads[j]
    /\ (loads # <<>> /\ loads[1] = <<>> /\ recCalled) =>
        /\ composeCalls = 0
        /\ pc \in {"respond", "awaiting"}
        /\ pc = "respond" => response = UnavailableMsg
        /\ pc = "awaiting" => LastMessage = Msg("assistant", UnavailableMsg)

C8_Witness ==
    /\ hasSheetUrl
    /\ loads = <<(<<>>), (<<>>)>>
    /\ pc = "awaiting"
    /\ recCalled
    /\ recArgs.craving = JNull
    /\ LastMessage = Msg("assistant", UnavailableMsg)

\* C9: the history starts with the greeting and, when the program waits
\* for input after n completed turns, has 1 + 2n entries whose roles
\* alternate assistant, user, assistant, ...
C9_HistoryAlternates ==
    pc = "awaiting" =>
        /\ messages[1] = Msg("assistant", Greeting)
        /\ Len(messages) = 1 + 2 * completed
        /\ \A i \in 1..Len(messages) : messages[i].role = (IF i % 2 = 1 THEN "assistant" ELSE "user")

\* the turn took the else branch of line 167
LocationMissing == pc = "respond" /\ ~recCalled

\* C10 as stated: an Intent whose location is present and not null (an empty
\* string included) never goes to LocationMissing.
C10_OnlyNullIsMissing ==
    (user_info.t = "obj" /\ user_info.o.location \notin {Absent, JNull}) => ~LocationMissing

\* C10 amended: the turn goes to LocationMissing exactly when the extracted
\* value is false in Python or is a dict whose location is false in Python
\* (missing, null, empty string, 0); a dict with a true location goes on
\* to load_data, and get_recommendations, when called, gets that dict's
\* location, budget and craving.
C10_FalsyLocationIsMissing ==
    /\ LocationMissing =>
        /\ response = ClarifyMsg
        /\ \/ user_info.t # "obj" /\ user_info \in {Val(sc) : sc \in {JNull, JFalse, JNum(0), JStr(""), JList(0)}}
           \/ user_info.t = "obj" /\ user_info.o.location \in {Absent, JNull, JStr(""), JNum(0)}
    /\ (user_info.t = "obj" /\ user_info.o.location \in {Absent, JNull, JStr(""), JNum(0)}) =>
        /\ ~recCalled
        /\ pc \in {"branch", "respond", "awaiting"}
    /\ (user_info.t = "obj" /\ user_info.o.location \in {JStr("CST"), JList(1)}) =>
        /\ pc \in {"branch", "loading", "composing", "respond", "awaiting", "crashed"}
        /\ pc \in {"respond", "awaiting"} => recCalled
        /\ pc = "crashed" => crashAt \in {"budget", "craving", "lower"}
    /\ recCalled => recArgs = [location |-> user_info.o.location, budget |-> user_info.o.budget, craving |-> user_info.o.craving]

C10_Witness ==
    /\ LocationMissing
    /\ user_info.t = "obj"
    /\ user_info.o.location = JStr("")
    /\ user_info.o.budget = JNum(200)
    /\ user_info.o.craving = JStr("cheesy")

====
